---- MODULE Spec2Model ----
(***************************************************************************)
(* Model of the NATS JetStream cluster exerciser (src/src/main.rs).        *)
(*                                                                         *)
(* One Cluster is driven by main's step loop.  A step is one action chosen *)
(* by the seeded generator followed by one validation pass.  The system    *)
(* under test (the nats-server processes and the client transport) is      *)
(* opaque: what a receive returns, and whether a system call succeeds, are *)
(* inputs chosen with \E.  Values drawn from the generator are inputs too; *)
(* SpecPair runs two schedulers on the same draws.                         *)
(***************************************************************************)
EXTENDS Integers, Sequences, FiniteSets, TLC

\* ---------------------------------------------------------------- bounds
MaxServers == 2     \* largest --servers explored
MaxClients == 2     \* largest --clients explored
MaxSteps   == 3     \* --steps of the explored runs
MaxId      == 2     \* identifiers a receive may deliver: 0 .. MaxId-1

\* ------------------------------------------------------ program constants
ChoiceRange == 50   \* gen_range(0..50) in Cluster::step
BasePort    == 44000

VARIABLES
    args,                   \* Args: servers, clients, steps
    servers,                \* Cluster.servers: slot -> Server
    procs,                  \* slot -> status of every process spawned for it
    dirs,                   \* indices whose storage directory exists
    paused,                 \* Cluster.paused
    clients,                \* Cluster.clients: id -> Consumer
    unvalidated_consumers,  \* Cluster.unvalidated_consumers
    durability_model,       \* Cluster.durability_model.observed
    IDGEN,                  \* the static counter of idgen()
    published,              \* payloads handed to publish, in order
    proc_ret,               \* what process_timeout returned to the current step
    pc,                     \* position of main / Cluster::step
    step,                   \* iterations of main's loop completed
    chosen,                 \* action (kind, target) applied by the current step
    sent,                   \* signal delivered by the current step
    paused2,                \* second scheduler (SpecPair): its paused set
    chosen2                 \* second scheduler (SpecPair): its action

vars == <<args, servers, procs, dirs, paused, clients, unvalidated_consumers,
          durability_model, IDGEN, published, proc_ret, pc, step, chosen, sent,
          paused2, chosen2>>

shadow == <<paused2, chosen2>>

\* ------------------------------------------------------------- helpers
Min(a, b) == IF a < b THEN a ELSE b

Range(f) == {f[x] : x \in DOMAIN f}

Prefix(s, n) == SubSeq(s, 1, n)

\* The orders in which a HashSet may hand out its elements: the order
\* depends on the per-process hasher keys, so every permutation is possible.
IterOrders(S) == {o \in [1..Cardinality(S) -> S] : Range(o) = S}

NoChild == 0
NoAction == [kind |-> "none", target |-> -1]
NoSignal == [sig |-> "none", idx |-> -1, pid |-> 0]

\* A process is named by its slot and its number among the processes
\* spawned for that slot; Server.child holds that number, NoChild for None.

ServerIdx == 0..(args.servers - 1)
ClientIdx == 0..(args.clients - 1)

\* Variant of server whose index follows the number of the process.
server_drift(idx, pid) ==
    [child |-> pid, port |-> idx + BasePort, storage_dir |-> idx, idx |-> idx + pid - 1]

\* fn server(path, idx): the Server value it returns for a spawned child.
server(idx, pid) ==
    [child |-> pid, port |-> idx + BasePort, storage_dir |-> idx, idx |-> idx]

\* ---------------------------------------------------------------- Init
\* The state Cluster::start returns: every server spawned and running, its
\* storage directory created, consumers bound with empty logs.  The runs
\* explored have one or MaxServers servers and one or MaxClients clients.
Init ==
    /\ args \in [servers : {1, MaxServers}, clients : {1, MaxClients}, steps : {MaxSteps}]
    /\ servers = [i \in 0..(args.servers - 1) |-> server(i, 1)]
    /\ procs = [i \in 0..(args.servers - 1) |-> <<"running">>]
    /\ dirs = 0..(args.servers - 1)
    /\ paused = {}
    /\ clients = [c \in 0..(args.clients - 1) |-> [observed |-> <<>>, id |-> c]]
    /\ unvalidated_consumers = {}
    /\ durability_model = <<>>
    /\ IDGEN = 0
    /\ published = <<>>
    /\ proc_ret = "none"
    /\ pc = "step"
    /\ step = 0
    /\ chosen = NoAction
    /\ sent = NoSignal
    /\ paused2 = {}
    /\ chosen2 = NoAction

\* ------------------------------------------------------ process teardown
\* impl Drop for Server, applied to every slot (the Vec<Server> is dropped
\* when main returns or a panic unwinds): a slot that still holds its child
\* kills and reaps it; a child taken out of its slot is not touched.
drop_procs(pr, sv) ==
    [i \in DOMAIN pr |->
        [g \in DOMAIN pr[i] |-> IF sv[i].child = g THEN "exited" ELSE pr[i][g]]]

drop_dirs(ds, sv) == ds \ {sv[i].storage_dir : i \in DOMAIN sv}

\* A panic inside step(): the stack unwinds and the cluster is dropped.
Panic(pr, sv, ds) ==
    /\ pc' = "panicked"
    /\ procs' = drop_procs(pr, sv)
    /\ dirs' = drop_dirs(ds, sv)
    /\ servers' = sv

\* ------------------------------------------------------ action selection
\* Variant of StepChoice with the bound between pause and resume moved.
StepChoice_shifted(r) ==
    IF r = 0 THEN "restart_server"
    ELSE IF r >= 1 /\ r <= 5 THEN "pause_server"
    ELSE IF r >= 6 /\ r <= 9 THEN "resume_server"
    ELSE IF r >= 10 /\ r <= 29 THEN "publish"
    ELSE IF r >= 30 /\ r <= 49 THEN "consume"
    ELSE "unreachable"

\* The match of Cluster::step on gen_range(0..50).
StepChoice(r) ==
    IF r = 0 THEN "restart_server"
    ELSE IF r >= 1 /\ r <= 4 THEN "pause_server"
    ELSE IF r >= 5 /\ r <= 9 THEN "resume_server"
    ELSE IF r >= 10 /\ r <= 29 THEN "publish"
    ELSE IF r >= 30 /\ r <= 49 THEN "consume"
    ELSE "unreachable"

Draws == 0..(ChoiceRange - 1)

\* step() runs the handler of kind when some draw of the generator selects it.
Selected(kind) == {r \in Draws : StepChoice(r) = kind} # {}

AtStep == pc = "step" /\ step < args.steps

\* Variant of restart_server that forgets paused.remove.
restart_server_stale(idx, fail, early) ==
    /\ pc = "step" /\ step < args.steps
    /\ idx \in ServerIdx
    /\ fail = "none"
    /\ procs' = [procs EXCEPT ![idx] = Append([@ EXCEPT ![servers[idx].child] = "exited"], "running")]
    /\ servers' = [servers EXCEPT ![idx] = server(idx, Len(procs[idx]) + 1)]
    /\ dirs' = IF early THEN dirs \ {idx} ELSE dirs \cup {idx}
    /\ sent' = [sig |-> "SIGKILL", idx |-> idx, pid |-> servers[idx].child]
    /\ chosen' = [kind |-> "restart_server", target |-> idx]
    /\ pc' = "validate"
    /\ UNCHANGED <<args, published, proc_ret, paused, clients, unvalidated_consumers, durability_model, IDGEN, step>>

\* ------------------------------------------------------- restart_server
\* Server::restart followed by paused.remove.  fail names the call that
\* returns an error (and is unwrapped); early tells whether the new process
\* created its storage directory before the replaced Server value is
\* dropped, whose Drop removes the directory of the same name.
restart_server(idx, fail, early) ==
    /\ AtStep
    /\ idx \in ServerIdx
    /\ LET old == servers[idx].child
           taken == [servers EXCEPT ![idx].child = NoChild]
           killed == [procs EXCEPT ![idx][old] = "exited"]
       IN  /\ chosen' = [kind |-> "restart_server", target |-> idx]
           /\ CASE fail = "kill" ->
                     /\ Panic(procs, taken, dirs)
                     /\ sent' = NoSignal
                     /\ UNCHANGED paused
                [] fail = "spawn" ->
                     /\ Panic(killed, taken, dirs \ {idx})
                     /\ sent' = [sig |-> "SIGKILL", idx |-> idx, pid |-> old]
                     /\ UNCHANGED paused
                [] OTHER ->
                     /\ procs' = [killed EXCEPT ![idx] = Append(@, "running")]
                     /\ servers' = [servers EXCEPT ![idx] = server(idx, Len(procs[idx]) + 1)]
                     /\ dirs' = IF early THEN dirs \ {idx} ELSE dirs \cup {idx}
                     /\ sent' = [sig |-> "SIGKILL", idx |-> idx, pid |-> old]
                     /\ paused' = paused \ {idx}
                     /\ pc' = "validate"
    /\ UNCHANGED <<args, published, proc_ret, clients, unvalidated_consumers, durability_model, IDGEN, step>>

\* --------------------------------------------------------- pause_server
\* Variants of all_paused with the comparison wrong.
all_paused_gt(p, n) == Cardinality(p) > n

all_paused_never(p, n) == FALSE

\* The early return of pause_server.
all_paused(p, n) == Cardinality(p) = n

\* Entry of pause_server: return when every server is paused, otherwise go
\* on to draw an index.
pause_server ==
    /\ AtStep
    /\ IF all_paused(paused, args.servers)
       THEN /\ pc' = "validate"
            /\ chosen' = [kind |-> "pause_server", target |-> -1]
       ELSE /\ pc' = "pause_server"
            /\ UNCHANGED chosen
    /\ UNCHANGED <<args, published, proc_ret, servers, procs, dirs, paused, clients, unvalidated_consumers,
                   durability_model, IDGEN, step, sent>>

\* Variant of pause_rejects whose loop condition never becomes false.
pause_rejects_always(p, idx) == TRUE

\* Variant of pause_rejects without the while loop.
pause_rejects_never(p, idx) == FALSE

\* The index a draw of pause_server's loop settles on: a paused index is
\* rejected and drawn again.
pause_rejects(p, idx) == idx \in p

\* One draw of idx in pause_server: rejected while idx is paused, otherwise
\* SIGSTOP is delivered to the child of that slot and idx is recorded.
pause_draw(idx, ok) ==
    /\ pc = "pause_server"
    /\ idx \in ServerIdx
    /\ IF pause_rejects(paused, idx)
       THEN UNCHANGED <<servers, procs, dirs, paused, pc, chosen, sent>>
       ELSE LET pid == servers[idx].child
            IN  /\ chosen' = [kind |-> "pause_server", target |-> idx]
                /\ IF ok
                   THEN /\ procs' = [procs EXCEPT ![idx][pid] = "stopped"]
                        /\ sent' = [sig |-> "SIGSTOP", idx |-> idx, pid |-> pid]
                        /\ paused' = paused \cup {idx}
                        /\ pc' = "validate"
                        /\ UNCHANGED <<servers, dirs>>
                   ELSE /\ Panic(procs, servers, dirs)
                        /\ sent' = NoSignal
                        /\ UNCHANGED paused
    /\ UNCHANGED <<args, published, proc_ret, clients, unvalidated_consumers, durability_model, IDGEN, step>>

\* -------------------------------------------------------- resume_server
\* paused.iter().choose(rng): the element at the drawn position of the
\* set's iteration order.
choose(order, pos) == order[pos + 1]

resume_server(order, pos, ok) ==
    /\ AtStep
    /\ IF paused = {}
       THEN /\ pc' = "validate"
            /\ chosen' = [kind |-> "resume_server", target |-> -1]
            /\ order = <<>> /\ pos = 0 /\ ok
            /\ UNCHANGED <<servers, procs, dirs, paused, sent>>
       ELSE /\ order \in IterOrders(paused)
            /\ pos \in 0..(Len(order) - 1)
            /\ LET idx == choose(order, pos)
                   pid == servers[idx].child
               IN  /\ chosen' = [kind |-> "resume_server", target |-> idx]
                   /\ IF ok
                      THEN /\ procs' = [procs EXCEPT ![idx][pid] = "running"]
                           /\ sent' = [sig |-> "SIGCONT", idx |-> idx, pid |-> pid]
                           /\ paused' = paused \ {idx}
                           /\ pc' = "validate"
                           /\ UNCHANGED <<servers, dirs>>
                      ELSE /\ Panic(procs, servers, dirs)
                           /\ sent' = NoSignal
                           /\ UNCHANGED paused
    /\ UNCHANGED <<args, published, proc_ret, clients, unvalidated_consumers, durability_model, IDGEN, step>>

\* -------------------------------------------------------------- publish
\* Variant of idgen that returns the counter after the addition.
idgen_after(counter) == [id |-> counter + 1, next |-> counter + 1]

\* fn idgen(): IDGEN.fetch_add(1) returns the value before the addition.
\* The counter is a u64 and main takes at most 2^64 - 1 steps, so the
\* addition cannot wrap within a run.
idgen(counter) == [id |-> counter, next |-> counter + 1]

\* Variant of publish that also records the identifier in the log of the
\* publishing consumer.
publish_echo(ci, ok) ==
    /\ pc = "step" /\ step < args.steps
    /\ ci \in ClientIdx
    /\ ok
    /\ chosen' = [kind |-> "publish", target |-> clients[ci].id]
    /\ IDGEN' = IDGEN + 1
    /\ published' = Append(published, IDGEN)
    /\ clients' = [clients EXCEPT ![ci].observed = Append(@, IDGEN)]
    /\ pc' = "validate"
    /\ UNCHANGED <<args, proc_ret, servers, procs, dirs, paused, unvalidated_consumers,
                   durability_model, step, sent>>

\* clients.choose(rng).unwrap(), idgen(), publish(..).unwrap().
publish(ci, ok) ==
    /\ AtStep
    /\ ci \in ClientIdx
    /\ chosen' = [kind |-> "publish", target |-> clients[ci].id]
    /\ IDGEN' = idgen(IDGEN).next
    /\ published' = Append(published, idgen(IDGEN).id)
    /\ IF ok
       THEN pc' = "validate" /\ UNCHANGED <<servers, procs, dirs>>
       ELSE Panic(procs, servers, dirs)
    /\ UNCHANGED <<args, proc_ret, paused, clients, unvalidated_consumers, durability_model, step, sent>>

\* -------------------------------------------------------------- consume
\* What process_timeout may return: a message of 8 bytes ("msg"), a
\* timeout, another transport error, or a message whose payload is not 8
\* bytes long ("badlen": try_into().unwrap() panics in the handler).
Outcomes == {"msg", "timeout", "error", "badlen"}

Ids == 0..(MaxId - 1)

\* Variant of consume that marks every consumer unvalidated.
consume_mark_all(ci, outcome, id) ==
    /\ pc = "step" /\ step < args.steps
    /\ outcome \in {"msg", "timeout"}
    /\ id \in Ids
    /\ ci \in ClientIdx
    /\ chosen' = [kind |-> "consume", target |-> clients[ci].id]
    /\ proc_ret' = outcome
    /\ IF outcome = "msg"
       THEN /\ clients' = [clients EXCEPT ![ci].observed = Append(@, id)]
            /\ unvalidated_consumers' = ClientIdx
       ELSE /\ id = 0
            /\ UNCHANGED <<clients, unvalidated_consumers>>
    /\ pc' = "validate"
    /\ UNCHANGED <<args, published, servers, procs, dirs, paused, durability_model,
                   IDGEN, step, sent>>

consume(ci, outcome, id) ==
    /\ AtStep
    /\ outcome \in Outcomes
    /\ id \in Ids
    /\ ci \in ClientIdx
    /\ chosen' = [kind |-> "consume", target |-> clients[ci].id]
    /\ proc_ret' = outcome
    /\ CASE outcome = "msg" ->
              /\ clients' = [clients EXCEPT ![ci].observed = Append(@, id)]
              /\ unvalidated_consumers' = unvalidated_consumers \cup {clients[ci].id}
              /\ pc' = "validate"
              /\ UNCHANGED <<servers, procs, dirs>>
         [] outcome = "badlen" ->
              /\ id = 0
              /\ Panic(procs, servers, dirs)
              /\ UNCHANGED <<clients, unvalidated_consumers>>
         [] OTHER ->
              /\ id = 0
              /\ pc' = "validate"
              /\ UNCHANGED <<servers, procs, dirs, clients, unvalidated_consumers>>
    /\ UNCHANGED <<args, published, paused, durability_model, IDGEN, step, sent>>

\* ------------------------------------------------------------- validate
\* Variant of shared_len that shares nothing.
shared_len_zero(cluster_len, client_len) == 0

shared_len(cluster_len, client_len) == Min(cluster_len, client_len)

\* Variant of prefixes_agree without the assertion.
prefixes_agree_always(model, log) == TRUE

\* The assert_eq! of validate: the oracle and the log agree on shared_len.
prefixes_agree(model, log) ==
    Prefix(model, shared_len(Len(model), Len(log)))
        = Prefix(log, shared_len(Len(model), Len(log)))

\* Variants of extend: the oracle never grows; the whole log is appended.
extend_never(model, log) == model

extend_whole(model, log) ==
    IF Len(log) > Len(model) THEN model \o log ELSE model

\* The extend_from_slice of validate.
extend(model, log) ==
    IF Len(log) > Len(model)
    THEN model \o SubSeq(log, shared_len(Len(model), Len(log)) + 1, Len(log))
    ELSE model

\* The for loop of validate over the taken set, in iteration order; it
\* stops at the first failed assertion.
RECURSIVE validate_loop(_, _, _)
validate_loop(order, model, cl) ==
    IF order = <<>>
    THEN [ok |-> TRUE, observed |-> model]
    ELSE LET log == cl[Head(order)].observed
         IN  IF prefixes_agree(model, log)
             THEN validate_loop(Tail(order), extend(model, log), cl)
             ELSE [ok |-> FALSE, observed |-> model]

\* Variant of validate that reports a failed assertion and carries on.
validate_no_abort(order) ==
    /\ pc = "validate"
    /\ order \in IterOrders(unvalidated_consumers)
    /\ unvalidated_consumers' = {}
    /\ durability_model' = validate_loop(order, durability_model, clients).observed
    /\ pc' = "step"
    /\ step' = step + 1
    /\ chosen' = NoAction
    /\ sent' = NoSignal
    /\ proc_ret' = "none"
    /\ UNCHANGED <<args, published, servers, procs, dirs, paused, clients, IDGEN>>

\* Variant of validate that iterates the set without taking it.
validate_keep(order) ==
    /\ pc = "validate"
    /\ order \in IterOrders(unvalidated_consumers)
    /\ validate_loop(order, durability_model, clients).ok
    /\ durability_model' = validate_loop(order, durability_model, clients).observed
    /\ pc' = "step"
    /\ step' = step + 1
    /\ chosen' = NoAction
    /\ sent' = NoSignal
    /\ proc_ret' = "none"
    /\ UNCHANGED <<args, published, servers, procs, dirs, paused, clients, IDGEN,
                   unvalidated_consumers>>

\* The validation pass that ends a step, and the loop increment of main.
validate(order) ==
    /\ pc = "validate"
    /\ order \in IterOrders(unvalidated_consumers)
    /\ unvalidated_consumers' = {}
    /\ LET res == validate_loop(order, durability_model, clients)
       IN  /\ durability_model' = res.observed
           /\ IF res.ok
              THEN /\ pc' = "step"
                   /\ step' = step + 1
                   /\ chosen' = NoAction
                   /\ sent' = NoSignal
                   /\ proc_ret' = "none"
                   /\ UNCHANGED <<servers, procs, dirs>>
              ELSE /\ Panic(procs, servers, dirs)
                   /\ UNCHANGED <<step, chosen, sent, proc_ret>>
    /\ UNCHANGED <<args, published, paused, clients, IDGEN>>

\* ----------------------------------------------------------------- main
\* The loop of main has run args.steps times: main returns and the cluster
\* is dropped.
finish ==
    /\ pc = "step"
    /\ step = args.steps
    /\ pc' = "done"
    /\ procs' = drop_procs(procs, servers)
    /\ dirs' = drop_dirs(dirs, servers)
    /\ UNCHANGED <<args, published, proc_ret, servers, paused, clients, unvalidated_consumers,
                   durability_model, IDGEN, step, chosen, sent>>

\* ------------------------------------------------------- specification
Fails == {"none", "kill", "spawn"}

RestartServer ==
    /\ Selected("restart_server")
    /\ \E idx \in ServerIdx, fail \in Fails, early \in BOOLEAN :
           restart_server(idx, fail, early)
    /\ UNCHANGED shadow

PauseServer ==
    /\ Selected("pause_server")
    /\ pause_server
    /\ UNCHANGED shadow

PauseDraw ==
    /\ \E idx \in ServerIdx, ok \in BOOLEAN : pause_draw(idx, ok)
    /\ UNCHANGED shadow

ResumeServer ==
    /\ Selected("resume_server")
    /\ \E order \in IterOrders(paused), pos \in 0..MaxServers, ok \in BOOLEAN :
           resume_server(order, pos, ok)
    /\ UNCHANGED shadow

Publish ==
    /\ Selected("publish")
    /\ \E ci \in ClientIdx, ok \in BOOLEAN : publish(ci, ok)
    /\ UNCHANGED shadow

Consume ==
    /\ Selected("consume")
    /\ \E ci \in ClientIdx, outcome \in Outcomes, id \in Ids :
           consume(ci, outcome, id)
    /\ UNCHANGED shadow

Validate ==
    /\ \E order \in IterOrders(unvalidated_consumers) : validate(order)
    /\ UNCHANGED shadow

Finish ==
    /\ finish
    /\ UNCHANGED shadow

Next ==
    \/ RestartServer
    \/ PauseServer
    \/ PauseDraw
    \/ ResumeServer
    \/ Publish
    \/ Consume
    \/ Validate
    \/ Finish

Spec == Init /\ [][Next]_vars

\* ------------------------------------------------- two runs, one seed
\* SpecPair runs a second scheduler beside the first.  Both are built from
\* the same seed and counts, so every value drawn from the generator (the
\* action, an index, a position) is the same in both; what the two runs do
\* not share is the iteration order of their HashSets.  The second
\* scheduler keeps the part of the Cluster that action selection reads:
\* its paused set, and the action it applied.
Synced == paused = paused2 /\ chosen = chosen2

restart_server2(idx) ==
    /\ paused2' = paused2 \ {idx}
    /\ chosen2' = [kind |-> "restart_server", target |-> idx]

pause_server2 ==
    /\ chosen2' = IF all_paused(paused2, args.servers)
                  THEN [kind |-> "pause_server", target |-> -1]
                  ELSE chosen2
    /\ UNCHANGED paused2

pause_draw2(idx) ==
    IF pause_rejects(paused2, idx)
    THEN UNCHANGED <<paused2, chosen2>>
    ELSE /\ paused2' = paused2 \cup {idx}
         /\ chosen2' = [kind |-> "pause_server", target |-> idx]

resume_server2(order, pos) ==
    IF paused2 = {}
    THEN /\ chosen2' = [kind |-> "resume_server", target |-> -1]
         /\ UNCHANGED paused2
    ELSE /\ paused2' = paused2 \ {choose(order, pos)}
         /\ chosen2' = [kind |-> "resume_server", target |-> choose(order, pos)]

traffic2(kind, ci) ==
    /\ chosen2' = [kind |-> kind, target |-> clients[ci].id]
    /\ UNCHANGED paused2

validate2 ==
    /\ chosen2' = IF pc' = "panicked" THEN chosen2 ELSE NoAction
    /\ UNCHANGED paused2

PairRestartServer ==
    /\ Synced /\ Selected("restart_server")
    /\ \E idx \in ServerIdx, fail \in Fails, early \in BOOLEAN :
           restart_server(idx, fail, early) /\ restart_server2(idx)

PairPauseServer ==
    /\ Synced /\ Selected("pause_server")
    /\ pause_server /\ pause_server2

PairPauseDraw ==
    /\ Synced
    /\ \E idx \in ServerIdx, ok \in BOOLEAN : pause_draw(idx, ok) /\ pause_draw2(idx)

PairResumeServer ==
    /\ Synced /\ Selected("resume_server")
    /\ \E order \in IterOrders(paused), order2 \in IterOrders(paused2),
          pos \in 0..MaxServers, ok \in BOOLEAN :
           resume_server(order, pos, ok) /\ resume_server2(order2, pos)

PairPublish ==
    /\ Synced /\ Selected("publish")
    /\ \E ci \in ClientIdx, ok \in BOOLEAN :
           publish(ci, ok) /\ traffic2("publish", ci)

PairConsume ==
    /\ Synced /\ Selected("consume")
    /\ \E ci \in ClientIdx, outcome \in Outcomes, id \in Ids :
           consume(ci, outcome, id) /\ traffic2("consume", ci)

PairValidate ==
    /\ Synced
    /\ \E order \in IterOrders(unvalidated_consumers) : validate(order) /\ validate2

PairFinish ==
    /\ Synced
    /\ finish
    /\ UNCHANGED shadow

NextPair ==
    \/ PairRestartServer
    \/ PairPauseServer
    \/ PairPauseDraw
    \/ PairResumeServer
    \/ PairPublish
    \/ PairConsume
    \/ PairValidate
    \/ PairFinish

SpecPair == Init /\ [][NextPair]_vars

\* The run with its scheduling: main's loop does not stop by itself, so a
\* step that is due is taken (pause_server, always selectable at the top of
\* a step, stands for the draw), the validation pass and the return of main
\* follow, and the draws of pause_server's loop eventually hit an index
\* that it accepts.
SpecFair ==
    /\ Spec
    /\ WF_vars(PauseServer)
    /\ WF_vars(PauseDraw)
    /\ WF_vars(Validate)
    /\ WF_vars(Finish)

\* ================================================================ claims
Log(c) == clients[c].observed

IsPrefix(a, b) == Len(a) <= Len(b) /\ \A i \in 1..Len(a) : a[i] = b[i]

Mismatch(a, b) == \E i \in 1..Len(a) : i <= Len(b) /\ a[i] # b[i]

\* A step has completed: its validation pass did not abort.
AfterStep == pc \in {"step", "pause_server", "done"}

\* The run is going on.
Live == pc \in {"step", "pause_server", "validate"}

Ended == pc \in {"done", "panicked"}

MaxLogLen ==
    CHOOSE n \in {Len(Log(c)) : c \in ClientIdx} : \A c \in ClientIdx : Len(Log(c)) <= n

\* Consumers that a validation pass has merged into the oracle.
Merged == {c \in ClientIdx : Len(Log(c)) > 0}

Status(i) == IF servers[i].child = NoChild THEN "none" ELSE procs[i][servers[i].child]

SomeRunning == \E i \in ServerIdx : Status(i) = "running"

AllPaused == paused = ServerIdx

\* C1: after a step whose validation pass did not abort, for every consumer
\* and every k up to its log length, the first k entries of its log are the
\* first k entries of the oracle.
C1_OrderPrefixOracle ==
    AfterStep =>
        \A c \in ClientIdx : \A k \in 1..Len(Log(c)) :
            k <= Len(durability_model) /\ Log(c)[k] = durability_model[k]

C1_Witness ==
    /\ pc = "step"
    /\ \E c, d \in ClientIdx :
           /\ Len(Log(c)) >= 2
           /\ Len(Log(d)) = 1
           /\ Log(c)[1] # Log(c)[2]

C3_OracleGrowth ==
    /\ [][IsPrefix(durability_model, durability_model')]_vars
    /\ [](AfterStep =>
            /\ Len(durability_model) = MaxLogLen
            /\ (args.clients = 1 => Len(durability_model) = Len(Log(0))))

C3_Witness ==
    /\ pc = "step"
    /\ Len(durability_model) >= 2
    /\ \E c \in ClientIdx : Len(Log(c)) < Len(durability_model)

\* C4 as stated: after a validation pass the oracle is the longest sequence
\* that is a prefix of the log of every merged consumer.
C4_LongestCommonPrefix ==
    (AfterStep /\ Merged # {}) =>
        /\ \A c \in Merged : IsPrefix(durability_model, Log(c))
        /\ \A c \in Merged : Len(Log(c)) > Len(durability_model) =>
               \E d \in Merged : ~IsPrefix(Prefix(Log(c), Len(durability_model) + 1), Log(d))

\* C4 amended: after a validation pass the oracle is the longest log of the
\* merged consumers: every merged log is a prefix of it and it is the log
\* of one of them (it is empty when none has been merged).
C4_LongestLog ==
    AfterStep =>
        /\ \A c \in Merged : IsPrefix(Log(c), durability_model)
        /\ IF Merged = {} THEN durability_model = <<>>
           ELSE \E c \in Merged : Log(c) = durability_model

C4_Witness ==
    /\ pc = "step"
    /\ \E c, d \in Merged : Len(Log(c)) < Len(Log(d))

\* C5: when a consume has made a log differ from the oracle on their shared
\* prefix, the validation pass of that step aborts the run without changing
\* the oracle, and nothing happens after an abort.
C5_FailFast ==
    /\ [][(/\ pc = "validate"
           /\ \E c \in unvalidated_consumers : Mismatch(Log(c), durability_model))
          => (pc' = "panicked" /\ durability_model' = durability_model)]_vars
    /\ [][pc # "panicked"]_vars

C5_Witness ==
    /\ pc = "panicked"
    /\ chosen.kind = "consume"
    /\ chosen.target \in ClientIdx
    /\ Mismatch(Log(chosen.target), durability_model)

\* C6: two runs with the same seed and counts apply the same action, with
\* the same target, at every step.
C6_Determinism == chosen = chosen2

\* C7: while the run goes on, an index is in paused exactly when the process
\* in its slot was stopped and not continued since, and an index that was
\* just resumed or restarted is not in paused.
C7_PausedBookkeeping ==
    Live =>
        /\ \A i \in ServerIdx : i \in paused <=> Status(i) = "stopped"
        /\ (/\ pc = "validate"
            /\ chosen.kind \in {"restart_server", "resume_server"}
            /\ chosen.target # -1) => chosen.target \notin paused

C7_Witness ==
    /\ pc = "validate"
    /\ chosen.kind = "resume_server"
    /\ chosen.target # -1
    /\ Status(chosen.target) = "running"
    /\ paused # {}

\* C8: SIGSTOP is only sent to a server that is not in paused and SIGCONT
\* only to one that is; an index enters paused only by a SIGSTOP sent to it
\* and leaves it only by a SIGCONT sent to it or by its restart.
C8_LegalTransitions ==
    [][/\ (pc \in {"step", "pause_server"} /\ sent'.sig = "SIGSTOP") =>
              (sent'.idx \notin paused /\ sent'.pid = servers[sent'.idx].child)
       /\ (pc \in {"step", "pause_server"} /\ sent'.sig = "SIGCONT") =>
              (sent'.idx \in paused /\ sent'.pid = servers[sent'.idx].child)
       /\ \A i \in ServerIdx :
              /\ (i \notin paused /\ i \in paused') =>
                     (sent'.sig = "SIGSTOP" /\ sent'.idx = i)
              /\ (i \in paused /\ i \notin paused') =>
                     \/ (sent'.sig = "SIGCONT" /\ sent'.idx = i)
                     \/ chosen' = [kind |-> "restart_server", target |-> i]]_vars

C8_Witness ==
    /\ pc = "validate"
    /\ sent.sig = "SIGSTOP"
    /\ paused = ServerIdx
    /\ args.servers = 2

\* C9: pause_server with every server paused, and resume_server with none
\* paused, return without sending a signal and change nothing of the
\* cluster.
C9_NoOps ==
    [][((/\ pc = "step"
         /\ \/ (AllPaused /\ (pc' = "pause_server" \/ chosen'.kind = "pause_server"))
            \/ (paused = {} /\ chosen'.kind = "resume_server"))
        => /\ pc' = "validate"
           /\ chosen'.target = -1
           /\ sent' = NoSignal
           /\ UNCHANGED <<servers, procs, dirs, paused, clients, unvalidated_consumers,
                          durability_model, IDGEN>>)]_vars

C9_Witness ==
    /\ pc = "validate"
    /\ chosen = [kind |-> "pause_server", target |-> -1]
    /\ AllPaused

\* C10 as stated: a state with every server paused is always followed by
\* one with a server running.
C10_AlwaysResumes == AllPaused ~> SomeRunning

\* C10 amended: while a step remains and every server is paused,
\* resume_server and restart_server can be selected and, when their calls
\* succeed, leave a server running; and a state with every server paused is
\* followed by one with a server running unless the run ends first.
C10_NoStall ==
    /\ []((pc = "step" /\ step < args.steps /\ AllPaused) =>
            (ENABLED ResumeServer /\ ENABLED RestartServer))
    /\ [][(/\ pc = "step" /\ AllPaused /\ pc' = "validate"
           /\ chosen'.kind \in {"resume_server", "restart_server"}) => SomeRunning']_vars
    /\ AllPaused ~> (SomeRunning \/ Ended)

C10_Witness ==
    /\ pc = "validate"
    /\ chosen.kind = "resume_server"
    /\ chosen.target # -1
    /\ Cardinality(paused) = args.servers - 1
    /\ args.servers = 2
    /\ SomeRunning

Kinds == {"restart_server", "pause_server", "resume_server", "publish", "consume"}

Weight(kind) == Cardinality({r \in Draws : StepChoice(r) = kind})

\* C11: the identifiers handed to publish are 0, 1, 2, ... in publish
\* order (distinct, each one greater by 1), and only publish moves the
\* counter, by exactly 1.
C11_Identifiers ==
    /\ [](/\ IDGEN = Len(published)
          /\ \A i \in 1..Len(published) : published[i] = i - 1)
    /\ [][IDGEN' # IDGEN =>
            (pc = "step" /\ chosen'.kind = "publish" /\ IDGEN' = IDGEN + 1)]_vars

C11_Witness ==
    /\ pc = "validate"
    /\ chosen.kind = "publish"
    /\ Len(published) >= 2
    /\ \E i \in ServerIdx : Len(procs[i]) > 1

\* C12: every draw 0..49 selects one of the five actions, none reaches the
\* impossible choice, and the actions have 1, 4, 5, 20 and 20 draws.
C12_Weights ==
    AtStep =>
        /\ \A r \in Draws : StepChoice(r) \in Kinds
        /\ Weight("restart_server") = 1
        /\ Weight("pause_server") = 4
        /\ Weight("resume_server") = 5
        /\ Weight("publish") = 20
        /\ Weight("consume") = 20

C12_Witness ==
    /\ pc = "validate"
    /\ chosen.kind = "restart_server"
    /\ step = 1

\* C13: a step is one action followed by one validation pass; when the
\* pass starts the unvalidated set holds exactly the consumers whose log
\* grew in the action, at most one, and it is empty after the pass.
C13_StepStructure ==
    /\ [][/\ pc = "step" =>
                /\ pc' \in {"validate", "pause_server", "panicked", "done"}
                /\ step' = step
                /\ unvalidated_consumers = {}
                /\ unvalidated_consumers' =
                       {c \in ClientIdx : clients'[c].observed # clients[c].observed}
                /\ Cardinality(unvalidated_consumers') <= 1
          /\ pc = "pause_server" =>
                /\ pc' \in {"validate", "panicked"}
                /\ UNCHANGED <<step, clients, unvalidated_consumers>>
          /\ pc = "validate" =>
                /\ pc' \in {"step", "panicked"}
                /\ pc' = "step" => step' = step + 1
                /\ unvalidated_consumers' = {}
                /\ UNCHANGED clients]_vars
    /\ [](pc # "validate" => unvalidated_consumers = {})

C13_Witness ==
    /\ pc = "validate"
    /\ step = 2
    /\ Cardinality(unvalidated_consumers) = 1
    /\ \E c \in ClientIdx : c \notin unvalidated_consumers /\ Len(Log(c)) > 0

\* C14: a consume whose receive fails with an error other than a timeout
\* aborts the run.
C14_ErrorsFatal == proc_ret = "error" => pc = "panicked"

\* C15: a consume that times out changes nothing of the cluster; one that
\* succeeds appends one identifier to the log of the chosen consumer, marks
\* that consumer alone, and changes no other log.
C15_ConsumeOutcomes ==
    [][/\ (pc = "step" /\ proc_ret' = "timeout") =>
              UNCHANGED <<clients, unvalidated_consumers, durability_model, paused,
                          IDGEN, servers, procs>>
       /\ (pc = "step" /\ proc_ret' = "msg") =>
              /\ chosen'.kind = "consume"
              /\ \E id \in Ids :
                     clients'[chosen'.target].observed =
                         Append(clients[chosen'.target].observed, id)
              /\ \A c \in ClientIdx \ {chosen'.target} : clients'[c] = clients[c]
              /\ unvalidated_consumers' = {chosen'.target}
              /\ UNCHANGED <<durability_model, paused, IDGEN>>]_vars

C15_Witness ==
    /\ pc = "validate"
    /\ proc_ret = "msg"
    /\ Len(Log(chosen.target)) >= 2
    /\ args.clients >= 2

\* C16: when restart_server returns, the storage directory of the slot has
\* not been removed since the replacement was spawned.
C16_DirectoryKept ==
    (pc = "validate" /\ chosen.kind = "restart_server") => chosen.target \in dirs

\* C17: when the run has ended, on any exit path, every process ever
\* spawned has exited and every storage directory is removed.
C17_Cleanup ==
    Ended =>
        /\ \A i \in ServerIdx : \A g \in 1..Len(procs[i]) : procs[i][g] = "exited"
        /\ dirs = {}

\* C18: every run ends; it ends by returning from main only after exactly
\* args.steps steps; and the loop of pause_server is never entered with
\* every server paused.
C18_Termination ==
    /\ <>Ended
    /\ [](pc = "done" => step = args.steps)
    /\ [](pc = "pause_server" => ~AllPaused)

C18_Witness ==
    /\ pc = "done"
    /\ step = args.steps
    /\ paused # {}
    /\ args.servers >= 2

\* C19: the slots are fixed, and whenever an action is selected every slot i
\* holds a server with a process that is running or stopped, index i, port
\* 44000 + i and the storage path of i.
C19_SlotStability ==
    /\ DOMAIN servers = ServerIdx
    /\ AtStep =>
           \A i \in ServerIdx :
               /\ servers[i].child # NoChild
               /\ Status(i) \in {"running", "stopped"}
               /\ servers[i].idx = i
               /\ servers[i].port = 44000 + i
               /\ servers[i].storage_dir = i

C19_Witness ==
    /\ AtStep
    /\ \E i \in ServerIdx : servers[i].child > 1 /\ Status(i) = "stopped"

\* C20: restart, pause, resume and publish leave every log, the unvalidated
\* set and the oracle alone; a log only grows at its end and the set of
\* consumers is fixed; the oracle changes only in the validation pass.
C20_Frame ==
    [][/\ (/\ pc \in {"step", "pause_server"}
           /\ chosen'.kind \in {"restart_server", "pause_server", "resume_server", "publish"})
          => UNCHANGED <<clients, unvalidated_consumers, durability_model>>
       /\ DOMAIN clients' = DOMAIN clients
       /\ \A c \in ClientIdx : IsPrefix(clients[c].observed, clients'[c].observed)
       /\ durability_model' # durability_model => pc = "validate"]_vars

C20_Witness ==
    /\ pc = "validate"
    /\ chosen.kind = "publish"
    /\ Len(durability_model) >= 1
    /\ paused # {}
====
